---- MODULE Spec2Model ----
(***************************************************************************)
(* A model of go-flatpak's install progress monitor (install.go) and of    *)
(* its error normalisation (error.go).                                     *)
(*                                                                         *)
(* Byte strings are sequences of one-character strings.  The three regular *)
(* expressions of install.go are modelled by their leftmost-first, greedy  *)
(* match over such sequences.  float64 values are modelled exactly: the    *)
(* progress quotient as a pair of integers, the speed as a 53-bit binary   *)
(* mantissa and an exponent with round-to-nearest-even.                    *)
(***************************************************************************)
EXTENDS Integers, Sequences, FiniteSets, TLC

VARIABLES
    p,          \* Write: the chunk of the latest call
    n,          \* Write: the byte count it returned
    err,        \* Write: the error it returned ("nil" is no error)
    events,     \* the callback invocations so far, in order
    calls,      \* number of Write calls so far
    written,    \* history: the chunks of all Write calls so far, in order
    bar,        \* getProgress: its argument
    progress,   \* getProgress: its result
    status,     \* getSpeed: its argument
    speed,      \* getSpeed: its result
    stderr,     \* the diagnostic output of the process
    exit,       \* how the process ends
    runErr,     \* the error of cmd.Run / cmd.Output
    retErr      \* what wrapErrorCmdRun / wrapErrorCmdOutput returned

vars == <<p, n, err, events, calls, written, bar, progress, status, speed,
          stderr, exit, runErr, retErr>>

monitorVars == <<p, n, err, events, calls, written>>
progressVars == <<bar, progress>>
speedVars == <<status, speed>>
errorVars == <<stderr, exit, runErr, retErr>>

(***************************************************************************)
(* Bounds of the model.                                                    *)
(***************************************************************************)
MaxWrites == 3
MaxBarLen == 3
MaxNumLen == 3
MaxLines == 3

(***************************************************************************)
(* Characters and the character classes of Go's regexp syntax.             *)
(***************************************************************************)
Digit == {"0", "1", "2", "3", "4", "5", "6", "7", "8", "9"}

Letter ==
    {"a", "b", "c", "d", "e", "f", "g", "h", "i", "j", "k", "l", "m",
     "n", "o", "p", "q", "r", "s", "t", "u", "v", "w", "x", "y", "z",
     "A", "B", "C", "D", "E", "F", "G", "H", "I", "J", "K", "L", "M",
     "N", "O", "P", "Q", "R", "S", "T", "U", "V", "W", "X", "Y", "Z"}

\* \s
IsSpace(c) == c \in {" ", "\t", "\n", "\f", "\r"}

\* \w
IsWord(c) == c \in Digit \cup Letter \cup {"_"}

\* [\d.]
IsNumChar(c) == c \in Digit \cup {"."}

\* . (no s flag: every character but the newline)
IsDot(c) == c # "\n"

Min(S) == CHOOSE x \in S : \A y \in S : x <= y
Max(S) == CHOOSE x \in S : \A y \in S : x >= y

\* s[a..b], empty when b < a
Slice(s, a, b) == IF b < a THEN <<>> ELSE SubSeq(s, a, b)

\* whether literal lit occurs in s at position i
LitAt(s, i, lit) ==
    /\ i >= 1
    /\ i + Len(lit) - 1 <= Len(s)
    /\ \A k \in 1..Len(lit) : s[i + k - 1] = lit[k]

\* whether c is in the character class named class
InClass(c, class) ==
    CASE class = "space" -> IsSpace(c)
      [] class = "nonspace" -> ~IsSpace(c)
      [] class = "word" -> IsWord(c)
      [] class = "number" -> IsNumChar(c)
      [] class = "dot" -> IsDot(c)

\* end (exclusive) of the longest run of characters of s from position i that
\* are in class
RunEnd(s, i, class) ==
    Min({k \in i..(Len(s) + 1) : k = Len(s) + 1 \/ ~InClass(s[k], class)})

HasPrefix(s, prefix) == LitAt(s, 1, prefix)

\* a mutant of TrimPrefix: the whitespace after the prefix is removed too
TrimPrefixAndSpace(s, prefix) ==
    IF HasPrefix(s, prefix)
    THEN Slice(s, RunEnd(s, Len(prefix) + 1, "space"), Len(s))
    ELSE s

\* bytes.TrimPrefix
TrimPrefix(s, prefix) ==
    IF HasPrefix(s, prefix) THEN Slice(s, Len(prefix) + 1, Len(s)) ELSE s

(***************************************************************************)
(* getProgress (install.go:28-45).  The float64 quotient                   *)
(* float64(total) / float64(len(bar)*3) is kept as the pair of its         *)
(* operands: IEEE division is correctly rounded, so the result is a        *)
(* function of the rational num/den, and 0/0 is NaN.                       *)
(***************************************************************************)
BarChars == {"#", "=", "-", " "}

\* a mutant of BarWeight: every filled cell counts as a whole cell
BarWeightFilledCells(b) ==
    CASE b = "#" -> 3
      [] b = "=" -> 3
      [] b = "-" -> 3
      [] b = " " -> 0

BarWeight(b) ==
    CASE b = "#" -> 3
      [] b = "=" -> 2
      [] b = "-" -> 1
      [] b = " " -> 0

RECURSIVE BarTotal(_, _, _)
\* the loop of getProgress from position i with the accumulator total;
\* -1 is the early return with an error
BarTotal(b, i, total) ==
    IF i > Len(b) THEN total
    ELSE IF b[i] \notin BarChars THEN -1
    ELSE BarTotal(b, i + 1, total + BarWeight(b[i]))

\* a mutant of getProgress: an unknown character is skipped, not an error
getProgressLenient(b) ==
    LET known == SelectSeq(b, LAMBDA c : c \in BarChars)
    IN  [err |-> FALSE, num |-> BarTotal(known, 1, 0), den |-> Len(b) * 3]

getProgress(b) ==
    LET total == BarTotal(b, 1, 0)
    IN  IF total < 0
        THEN [err |-> TRUE, num |-> 0, den |-> 1]
        ELSE [err |-> FALSE, num |-> total, den |-> Len(b) * 3]

\* 0 <= q <= 1 as a float64 comparison (false of NaN)
InUnitInterval(q) == q.den > 0 /\ 0 <= q.num /\ q.num <= q.den

(***************************************************************************)
(* The three patterns of install.go:12-14.  Go's regexp finds the leftmost *)
(* match and, among the matches that start there, the one a backtracking   *)
(* matcher with greedy quantifiers finds first.                            *)
(***************************************************************************)
InstallingLit == <<"I", "n", "s", "t", "a", "l", "l", "i", "n", "g", ":">>

FromLit == <<"f", "r", "o", "m">>

\* regInstall matches at position i: the literal, a run of \s, a run of \S,
\* a run of \s, then "from".  Each greedy run is followed by a character
\* outside its class, so only the longest run can match.
regInstallAt(s, i) ==
    /\ LitAt(s, i, InstallingLit)
    /\ LET a == i + Len(InstallingLit)
           b == RunEnd(s, a, "space")
           c == RunEnd(s, b, "nonspace")
           d == RunEnd(s, c, "space")
       IN  /\ b > a
           /\ c > b
           /\ d > c
           /\ LitAt(s, d, FromLit)

\* regInstall.FindSubmatch(s): result[1] is the token
regInstall(s) ==
    LET starts == {i \in 1..Len(s) : regInstallAt(s, i)}
    IN  IF starts = {} THEN [matched |-> FALSE, ref |-> <<>>]
        ELSE LET i == Min(starts)
                 a == i + Len(InstallingLit)
                 b == RunEnd(s, a, "space")
             IN  [matched |-> TRUE,
                  ref |-> Slice(s, b, RunEnd(s, b, "nonspace") - 1)]

\* the positions j of a "]" that can close a bar opened by the "[" at i: no
\* newline in between, and a whitespace character right after it
BarEnds(s, i) ==
    {j \in (i + 1)..(Len(s) - 1) :
        /\ s[j] = "]"
        /\ IsSpace(s[j + 1])
        /\ \A k \in (i + 1)..(j - 1) : IsDot(s[k])}

\* regProgress.FindSubmatch(s): result[1] is the bar, result[2] the status.
\* The first group is greedy, so the bar ends at the last possible "]"; the
\* whitespace run is greedy and the second group runs to the end of the line.
regProgress(s) ==
    LET starts == {i \in 1..Len(s) : s[i] = "[" /\ BarEnds(s, i) # {}}
    IN  IF starts = {} THEN [matched |-> FALSE, bar |-> <<>>, status |-> <<>>]
        ELSE LET i == Min(starts)
                 j == Max(BarEnds(s, i))
                 k == RunEnd(s, j + 1, "space")
                 e == RunEnd(s, k, "dot")
             IN  [matched |-> TRUE,
                  bar |-> Slice(s, i + 1, j - 1),
                  status |-> Slice(s, k, e - 1)]

SpeedTail == <<"/", "s", ")">>

regSpeedAt(s, i) ==
    /\ s[i] = "("
    /\ LET b == RunEnd(s, i + 1, "number")
           c == RunEnd(s, b + 1, "word")
       IN  /\ b > i + 1
           /\ b <= Len(s)
           /\ s[b] = " "
           /\ c > b + 1
           /\ LitAt(s, c, SpeedTail)

\* regSpeed.FindSubmatch(s): result[1] is the number, result[2] the unit
regSpeed(s) ==
    LET starts == {i \in 1..Len(s) : regSpeedAt(s, i)}
    IN  IF starts = {} THEN [matched |-> FALSE, num |-> <<>>, unit |-> <<>>]
        ELSE LET i == Min(starts)
                 b == RunEnd(s, i + 1, "number")
                 c == RunEnd(s, b + 1, "word")
             IN  [matched |-> TRUE,
                  num |-> Slice(s, i + 1, b - 1),
                  unit |-> Slice(s, b + 1, c - 1)]

(***************************************************************************)
(* Unbounded naturals, as sequences of limbs in base 2^15 with the least   *)
(* significant limb first and no leading zero limb (zero is the empty      *)
(* sequence).  They carry the float64 mantissas of getSpeed, which do not  *)
(* fit the model checker's integers.                                       *)
(***************************************************************************)
LimbBits == 15
Base == 2 ^ LimbBits

RECURSIVE BNorm(_)
BNorm(a) ==
    IF a = <<>> THEN <<>>
    ELSE IF a[Len(a)] # 0 THEN a
    ELSE BNorm(SubSeq(a, 1, Len(a) - 1))

BFromNat(k) ==
    BNorm(<<k % Base, (k \div Base) % Base, k \div (Base * Base)>>)

BLimb(a, i) == IF i <= Len(a) THEN a[i] ELSE 0

RECURSIVE BAddFrom(_, _, _, _)
\* the limbs of a + b from position i on, with the carry into position i
BAddFrom(a, b, i, carry) ==
    IF i > Len(a) /\ i > Len(b)
    THEN (IF carry = 0 THEN <<>> ELSE <<carry>>)
    ELSE LET t == BLimb(a, i) + BLimb(b, i) + carry
         IN  <<t % Base>> \o BAddFrom(a, b, i + 1, t \div Base)

BAdd(a, b) == BAddFrom(a, b, 1, 0)

RECURSIVE BMulSmallFrom(_, _, _, _)
\* the limbs of a * m (m < Base) from position i on
BMulSmallFrom(a, m, i, carry) ==
    IF i > Len(a)
    THEN (IF carry = 0 THEN <<>> ELSE <<carry>>)
    ELSE LET t == a[i] * m + carry
         IN  <<t % Base>> \o BMulSmallFrom(a, m, i + 1, t \div Base)

BMulSmall(a, m) == IF m = 0 THEN <<>> ELSE BMulSmallFrom(a, m, 1, 0)

RECURSIVE BMul(_, _)
BMul(a, b) ==
    IF b = <<>> \/ a = <<>> THEN <<>>
    ELSE LET rest == BMul(a, Tail(b))
             shifted == IF rest = <<>> THEN <<>> ELSE <<0>> \o rest
         IN  BAdd(BMulSmall(a, Head(b)), shifted)

RECURSIVE BDivFrom(_, _, _, _)
\* long division of a by d (d < Base), from limb i down, with the remainder
\* of the limbs above it: <<quotient limbs (low first), remainder>>
BDivFrom(a, d, i, rem) ==
    IF i = 0 THEN <<<<>>, rem>>
    ELSE LET r == rem * Base + a[i]
             lower == BDivFrom(a, d, i - 1, r % d)
         IN  <<Append(lower[1], r \div d), lower[2]>>

BDivSmall(a, d) ==
    LET r == BDivFrom(a, d, Len(a), 0)
    IN  [quo |-> BNorm(r[1]), rem |-> r[2]]

\* the number of bits of a
BitLen(a) ==
    IF a = <<>> THEN 0
    ELSE LimbBits * (Len(a) - 1)
            + Min({k \in 1..LimbBits : a[Len(a)] < 2 ^ k})

\* a * 2^k
BShl(a, k) ==
    IF a = <<>> THEN <<>>
    ELSE [i \in 1..(k \div LimbBits) |-> 0] \o BMulSmall(a, 2 ^ (k % LimbBits))

\* a \div 2^k, and whether a non-zero remainder was dropped
BShr(a, k) ==
    LET q == k \div LimbBits
        d == BDivSmall(Slice(a, q + 1, Len(a)), 2 ^ (k % LimbBits))
    IN  [quo |-> d.quo,
         sticky |-> d.rem # 0 \/ \E i \in 1..q : i <= Len(a) /\ a[i] # 0]

IsOdd(a) == a # <<>> /\ a[1] % 2 = 1

RECURSIVE BFromDigits(_, _)
\* the value of the decimal digits ds after the value acc
BFromDigits(ds, acc) ==
    IF ds = <<>> THEN acc
    ELSE BFromDigits(Tail(ds), BAdd(BMulSmall(acc, 10), BFromNat(Head(ds))))

RECURSIVE BGroups(_)
\* a in base 10000, most significant group first
BGroups(a) ==
    IF a = <<>> THEN <<>>
    ELSE LET d == BDivSmall(a, 10000) IN Append(BGroups(d.quo), d.rem)

\* an integer as its decimal digits, most significant first
Decimal(a) ==
    LET g == BGroups(a)
        all == [i \in 1..(4 * Len(g)) |->
                   (g[(i + 3) \div 4] \div (10 ^ (3 - ((i - 1) % 4)))) % 10]
        first == {i \in 1..Len(all) : all[i] # 0}
    IN  IF a = <<>> THEN <<0>> ELSE Slice(all, Min(first), Len(all))

(***************************************************************************)
(* float64: a positive finite value is man * 2^exp with a mantissa of at   *)
(* most 53 bits; zero has the empty mantissa.  FloatRound is IEEE 754      *)
(* round-to-nearest, ties-to-even, of (m + fraction) * 2^e, where sticky   *)
(* says whether the fraction below m is non-zero.  Subnormals and          *)
(* overflow are outside the magnitudes a speed token within the bounds     *)
(* reaches.                                                                *)
(***************************************************************************)
MantBits == 53

FloatRound(m, sticky, e) ==
    IF BitLen(m) <= MantBits THEN [man |-> m, exp |-> e]
    ELSE LET drop == BitLen(m) - MantBits
             t == BShr(m, drop - 1)
             half == IsOdd(t.quo)
             kept == BShr(t.quo, 1).quo
             rest == sticky \/ t.sticky
             up == half /\ (rest \/ IsOdd(kept))
             r == IF up THEN BAdd(kept, <<1>>) ELSE kept
         IN  IF BitLen(r) > MantBits
             THEN [man |-> BShr(r, 1).quo, exp |-> e + drop + 1]
             ELSE [man |-> r, exp |-> e + drop]

RECURSIVE DivPow10(_, _, _)
\* m \div 10^f, and whether a remainder was dropped
DivPow10(m, f, sticky) ==
    IF f = 0 THEN [quo |-> m, sticky |-> sticky]
    ELSE LET d == BDivSmall(m, 10)
         IN  DivPow10(d.quo, f - 1, sticky \/ d.rem # 0)

DigitVal(c) ==
    CASE c = "0" -> 0 [] c = "1" -> 1 [] c = "2" -> 2 [] c = "3" -> 3
      [] c = "4" -> 4 [] c = "5" -> 5 [] c = "6" -> 6 [] c = "7" -> 7
      [] c = "8" -> 8 [] c = "9" -> 9

\* the digits of s, as numbers, without the decimal point
DigitsOf(s) ==
    LET ds == SelectSeq(s, LAMBDA c : c \in Digit)
    IN  [i \in 1..Len(ds) |-> DigitVal(ds[i])]

\* the number of digits after the decimal point (0 when there is none)
FracLen(s) ==
    LET dots == {i \in 1..Len(s) : s[i] = "."}
    IN  IF dots = {} THEN 0 ELSE Len(s) - Min(dots)

\* strconv.ParseFloat(s, 64) of a string of digits and points: a syntax
\* error unless there is at least one digit and at most one point; else the
\* float64 nearest to the decimal value
ParseFloat(s) ==
    IF \/ Cardinality({i \in 1..Len(s) : s[i] = "."}) > 1
       \/ \A i \in 1..Len(s) : s[i] \notin Digit
    THEN [err |-> TRUE, val |-> [man |-> <<>>, exp |-> 0]]
    ELSE LET f == FracLen(s)
             k == MantBits + 2 + 4 * f
             q == DivPow10(BShl(BFromDigits(DigitsOf(s), <<>>), k), f, FALSE)
         IN  [err |-> FALSE, val |-> FloatRound(q.quo, q.sticky, -k)]

\* x * y in float64, y an integer that float64 represents exactly
FloatMul(x, y) == FloatRound(BMul(x.man, y), FALSE, x.exp)

\* int64(x): the fraction is discarded.  An int64 is kept as its decimal
\* digits.
ToInt64(x) ==
    Decimal(IF x.exp >= 0 THEN BShl(x.man, x.exp) ELSE BShr(x.man, -x.exp).quo)

(***************************************************************************)
(* parseDataUnit and getSpeed (install.go:47-85).                          *)
(***************************************************************************)
Thousand == BFromNat(1000)

parseDataUnit(unit) ==
    CASE unit = <<"k", "B">> -> [err |-> FALSE, val |-> Thousand]
      [] unit = <<"M", "B">> -> [err |-> FALSE, val |-> BMul(Thousand, Thousand)]
      [] unit = <<"G", "B">> ->
            [err |-> FALSE, val |-> BMul(Thousand, BMul(Thousand, Thousand))]
      [] unit = <<"T", "B">> ->
            [err |-> FALSE,
             val |-> BMul(BMul(Thousand, Thousand), BMul(Thousand, Thousand))]
      [] unit = <<"b", "y", "t", "e", "s">> -> [err |-> FALSE, val |-> BFromNat(1)]
      [] OTHER -> [err |-> TRUE, val |-> <<>>]

\* The test speedNum < 0 of install.go:57 never succeeds: the number group
\* holds digits and points only, so ParseFloat returns no negative value.
getSpeed(s) ==
    LET result == regSpeed(s)
    IN  IF result.matched
        THEN LET speedNum == ParseFloat(result.num)
                 unit == parseDataUnit(result.unit)
             IN  IF speedNum.err THEN [err |-> "syntax", val |-> <<0>>]
                 ELSE IF unit.err THEN [err |-> "unit", val |-> <<0>>]
                 ELSE [err |-> "nil",
                       val |-> ToInt64(FloatMul(speedNum.val, unit.val))]
        ELSE [err |-> "nomatch", val |-> <<0>>]

(***************************************************************************)
(* InstallProgressMonitor.Write (install.go:87-113).  The monitor holds    *)
(* the callback only; events records the callback's invocations.           *)
(***************************************************************************)
\* a mutant of Emitted: the progress pattern is tried after an installing
\* notice too
EmittedAfterNotice(c) ==
    LET result == regProgress(c)
    IN  IF ~result.matched THEN <<>>
        ELSE LET pr == getProgress(result.bar)
             IN  IF pr.err THEN <<>>
                 ELSE <<[progress |-> [num |-> pr.num, den |-> pr.den],
                         status |-> result.status,
                         speed |-> getSpeed(result.status).val]>>

\* a mutant of Emitted: a speed that cannot be decoded abandons the chunk,
\* as a bar that cannot be decoded does
EmittedNeedsSpeed(c) ==
    IF regInstall(c).matched THEN <<>>
    ELSE LET result == regProgress(c)
         IN  IF ~result.matched THEN <<>>
             ELSE LET pr == getProgress(result.bar)
                      sp == getSpeed(result.status)
                  IN  IF pr.err \/ sp.err # "nil" THEN <<>>
                      ELSE <<[progress |-> [num |-> pr.num, den |-> pr.den],
                              status |-> result.status,
                              speed |-> sp.val]>>

\* a mutant of Emitted: the status text is cut where the speed token starts
EmittedStripsToken(c) ==
    IF regInstall(c).matched THEN <<>>
    ELSE LET result == regProgress(c)
         IN  IF ~result.matched THEN <<>>
             ELSE LET pr == getProgress(result.bar)
                      st == result.status
                      tok == {i \in 1..Len(st) : regSpeedAt(st, i)}
                  IN  IF pr.err THEN <<>>
                      ELSE <<[progress |-> [num |-> pr.num, den |-> pr.den],
                              status |-> IF tok = {} THEN st
                                         ELSE Slice(st, 1, Min(tok) - 1),
                              speed |-> getSpeed(st).val]>>

\* a mutant of Emitted: a monitor with a line buffer, which joins a chunk to
\* the chunk before it when that one did not end its line
EmittedReassembled(c) ==
    LET line == IF p # <<>> /\ p[Len(p)] # "\n" THEN p \o c ELSE c
    IN  IF regInstall(line).matched THEN <<>>
        ELSE LET result == regProgress(line)
             IN  IF ~result.matched THEN <<>>
                 ELSE LET pr == getProgress(result.bar)
                      IN  IF pr.err THEN <<>>
                          ELSE <<[progress |->
                                      [num |-> pr.num, den |-> pr.den],
                                  status |-> result.status,
                                  speed |-> getSpeed(result.status).val]>>

\* the branch of Write that handles the chunk c
Classify(c) ==
    IF regInstall(c).matched THEN "installing-notice"
    ELSE IF regProgress(c).matched THEN "progress-line"
    ELSE "unrecognized"

\* the invocations of w.cb that Write(c) makes
Emitted(c) ==
    IF regInstall(c).matched THEN <<>>
    ELSE LET result == regProgress(c)
         IN  IF ~result.matched THEN <<>>
             ELSE LET pr == getProgress(result.bar)
                  IN  IF pr.err THEN <<>>
                      ELSE <<[progress |-> [num |-> pr.num, den |-> pr.den],
                              status |-> result.status,
                              speed |-> getSpeed(result.status).val]>>

\* a mutant of WriteReturn: a bar that cannot be decoded is reported to the
\* caller
WriteReturnSurfaces(c) ==
    IF /\ ~regInstall(c).matched
       /\ regProgress(c).matched
       /\ getProgress(regProgress(c).bar).err
    THEN [n |-> 0, err |-> "unknown byte in progress bar"]
    ELSE [n |-> Len(c), err |-> "nil"]

\* the results of Write: every path ends at the label out
WriteReturn(c) == [n |-> Len(c), err |-> "nil"]

Write(c) ==
    /\ calls < MaxWrites
    /\ p' = c
    /\ n' = WriteReturn(c).n
    /\ err' = WriteReturn(c).err
    /\ events' = events \o Emitted(c)
    /\ calls' = calls + 1
    /\ written' = Append(written, c)
    /\ UNCHANGED <<progressVars, speedVars, errorVars>>

(***************************************************************************)
(* error.go.  An error value is a record: kind "nil" is no error,          *)
(* "ExitError" a non-zero exit status (with the diagnostic output          *)
(* cmd.Output captured in it), "PathError" a process that could not be     *)
(* started, "CopyError" an output stream that could not be read.           *)
(***************************************************************************)
NoError == [kind |-> "nil", Stderr |-> <<>>]

\* the position of the k-th newline of s; 0 before the first piece and
\* Len(s) + 1 after the last
Cut(s, k) ==
    LET nl == {i \in 1..Len(s) : s[i] = "\n"}
    IN  IF k = 0 THEN 0
        ELSE IF k > Cardinality(nl) THEN Len(s) + 1
        ELSE CHOOSE i \in nl : Cardinality({j \in nl : j <= i}) = k

\* bytes.Split(s, "\n"): one piece more than there are newlines
Split(s) ==
    [k \in 1..(Cardinality({i \in 1..Len(s) : s[i] = "\n"}) + 1) |->
        Slice(s, Cut(s, k - 1) + 1, Cut(s, k) - 1)]

\* a mutant of wrapErrorCmdRun: every error is normalised, whatever its type
wrapErrorCmdRunAnyError(e, stderrBuf) ==
    IF e.kind = "nil" THEN e
    ELSE [kind |-> "FlatpakError",
          desc |-> stderrBuf,
          origin |-> e,
          usageShown |-> FALSE]

\* a mutant of LastLine: the last piece is taken, empty or not
LastLineAny(lines, i, lastLine) == lines[Len(lines)]

RECURSIVE LastLine(_, _, _)
\* the loop of wrapError over lines from index i on
LastLine(lines, i, lastLine) ==
    IF i > Len(lines) THEN lastLine
    ELSE LastLine(lines, i + 1, IF Len(lines[i]) > 0 THEN lines[i] ELSE lastLine)

UsageLit == <<"U", "s", "a", "g", "e", ":">>

ErrorLit == <<"e", "r", "r", "o", "r", ":">>

wrapError(e, out) ==
    LET lines == Split(out)
        usageShown == Len(lines) > 0 /\ HasPrefix(lines[1], UsageLit)
        lastLine == LastLine(lines, 1, <<>>)
    IN  [kind |-> "FlatpakError",
         desc |-> TrimPrefix(lastLine, ErrorLit),
         origin |-> e,
         usageShown |-> usageShown]

wrapErrorCmdRun(e, stderrBuf) ==
    IF e.kind # "ExitError" THEN e ELSE wrapError(e, stderrBuf)

wrapErrorCmdOutput(e) ==
    IF e.kind # "ExitError" THEN e ELSE wrapError(e, e.Stderr)

\* FlatpakError.Error()
ErrorText(e) ==
    IF e.desc # <<>>
    THEN IF e.usageShown
         THEN <<"f", "l", "a", "t", "p", "a", "k", " ", "a", "r", "g", "u",
                "m", "e", "n", "t", " ", "e", "r", "r", "o", "r", ":">>
              \o e.desc
         ELSE <<"f", "l", "a", "t", "p", "a", "k", ":">> \o e.desc
    ELSE <<"e", "x", "i", "t", " ", "s", "t", "a", "t", "u", "s">>

(***************************************************************************)
(* The chunks the process writes.  SeqChunks are the chunks of a run of    *)
(* several Write calls: one of every outcome, the two halves of a split    *)
(* progress line, a chunk of two progress lines, and a chunk of a notice   *)
(* and a progress line.                                                    *)
(***************************************************************************)
\* ""
ChunkEmpty ==
    <<>>

\* "Installing: org.App from flathub\n"
ChunkInstalling ==
    <<"I", "n", "s", "t", "a", "l", "l", "i", "n", "g", ":", " ", "o", "r",
      "g", ".", "A", "p", "p", " ", "f", "r", "o", "m", " ", "f", "l", "a",
      "t", "h", "u", "b", "\n">>

\* "[#=- ] 33% (1.5 MB/s)\n"
ChunkProgress ==
    <<"[", "#", "=", "-", " ", "]", " ", "3", "3", "%", " ", "(", "1", ".",
      "5", " ", "M", "B", "/", "s", ")", "\n">>

\* "[#x] 1%\n"
ChunkBadBar ==
    <<"[", "#", "x", "]", " ", "1", "%", "\n">>

\* "[##] 9% (1.2.3 kB/s)"
ChunkBadSpeed ==
    <<"[", "#", "#", "]", " ", "9", "%", " ", "(", "1", ".", "2", ".", "3",
      " ", "k", "B", "/", "s", ")">>

\* "Required runtime\n"
ChunkText ==
    <<"R", "e", "q", "u", "i", "r", "e", "d", " ", "r", "u", "n", "t", "i",
      "m", "e", "\n">>

\* "[##"
ChunkHalfA ==
    <<"[", "#", "#">>

\* "] 50%\n"
ChunkHalfB ==
    <<"]", " ", "5", "0", "%", "\n">>

\* "[#] a\n[=] b\n"
ChunkTwoLines ==
    <<"[", "#", "]", " ", "a", "\n", "[", "=", "]", " ", "b", "\n">>

\* "[] 0%\n"
ChunkEmptyBar ==
    <<"[", "]", " ", "0", "%", "\n">>

\* "[==] 66%"
ChunkNoSpeed ==
    <<"[", "=", "=", "]", " ", "6", "6", "%">>

\* "Installing: a from b\n[#] 9%\n"
ChunkNoticeAndLine ==
    <<"I", "n", "s", "t", "a", "l", "l", "i", "n", "g", ":", " ", "a", " ",
      "f", "r", "o", "m", " ", "b", "\n", "[", "#", "]", " ", "9", "%", "\n">>

SeqChunks ==
    {ChunkEmpty, ChunkInstalling, ChunkProgress,
     ChunkBadBar, ChunkBadSpeed, ChunkText,
     ChunkHalfA, ChunkHalfB, ChunkTwoLines,
     ChunkEmptyBar, ChunkNoSpeed, ChunkNoticeAndLine}

(***************************************************************************)
(* LineChunks are the chunks of a single Write call: a progress line       *)
(* "[" bar "]" sep status between a prefix and a suffix, over every        *)
(* combination of the parts below, and one line for every bar of Bars.     *)
(***************************************************************************)
BarAlphabet == {"#", "=", "-", " ", "x"}

\* every string over alphabet of length lo..hi
Strings(alphabet, lo, hi) == UNION {[1..k -> alphabet] : k \in lo..hi}

\* "###===---   "
ExampleBar ==
    <<"#", "#", "#", "=", "=", "=", "-", "-", "-", " ", " ", " ">>

Bars == Strings(BarAlphabet, 0, MaxBarLen) \cup {ExampleBar}

\* ""
PrefixNone ==
    <<>>

\* "Installing: app from repo\n"
PrefixInstalling ==
    <<"I", "n", "s", "t", "a", "l", "l", "i", "n", "g", ":", " ", "a", "p",
      "p", " ", "f", "r", "o", "m", " ", "r", "e", "p", "o", "\n">>

\* "Installing: app\n"
PrefixNoFrom ==
    <<"I", "n", "s", "t", "a", "l", "l", "i", "n", "g", ":", " ", "a", "p",
      "p", "\n">>

\* "x "
PrefixText ==
    <<"x", " ">>

Prefixes == {PrefixNone, PrefixInstalling, PrefixNoFrom, PrefixText}

\* ""
BarEmpty ==
    <<>>

\* "#"
BarFull ==
    <<"#">>

\* "#=- "
BarMixed ==
    <<"#", "=", "-", " ">>

\* "#?"
BarUnknown ==
    <<"#", "?">>

LineBars == {BarEmpty, BarFull, BarMixed, BarUnknown}

\* " "
SepSpace ==
    <<" ">>

\* "\n"
SepNewline ==
    <<"\n">>

\* ""
SepNone ==
    <<>>

Seps == {SepSpace, SepNewline, SepNone}

\* ""
StatusNone ==
    <<>>

\* "33%"
StatusPercent ==
    <<"3", "3", "%">>

\* "33% (1.5 MB/s)"
StatusSpeed ==
    <<"3", "3", "%", " ", "(", "1", ".", "5", " ", "M", "B", "/", "s", ")">>

\* "(4.1 MB/s)"
StatusInexact ==
    <<"(", "4", ".", "1", " ", "M", "B", "/", "s", ")">>

\* "(1.2.3 kB/s)"
StatusTwoPoints ==
    <<"(", "1", ".", "2", ".", "3", " ", "k", "B", "/", "s", ")">>

\* "(-1 kB/s)"
StatusNegative ==
    <<"(", "-", "1", " ", "k", "B", "/", "s", ")">>

\* "(5 KiB/s)"
StatusBadUnit ==
    <<"(", "5", " ", "K", "i", "B", "/", "s", ")">>

\* "(5 bytes/s) (1 kB/s)"
StatusTwoTokens ==
    <<"(", "5", " ", "b", "y", "t", "e", "s", "/", "s", ")", " ", "(", "1",
      " ", "k", "B", "/", "s", ")">>

Statuses == {StatusNone, StatusPercent, StatusSpeed, StatusInexact, StatusTwoPoints, StatusNegative, StatusBadUnit, StatusTwoTokens}

\* ""
SuffixNone ==
    <<>>

\* "\n"
SuffixNewline ==
    <<"\n">>

\* "\n[=] 9%"
SuffixLine ==
    <<"\n", "[", "=", "]", " ", "9", "%">>

\* " [#] z"
SuffixBracket ==
    <<" ", "[", "#", "]", " ", "z">>

Suffixes == {SuffixNone, SuffixNewline, SuffixLine, SuffixBracket}

ProgressLine(pre, b, sep, st, suf) ==
    pre \o <<"[">> \o b \o <<"]">> \o sep \o st \o suf

LineChunks ==
    {ProgressLine(pre, b, sep, st, suf) :
        pre \in Prefixes, b \in LineBars, sep \in Seps, st \in Statuses,
        suf \in Suffixes}
    \cup {ProgressLine(PrefixNone, b, SepSpace, StatusPercent, SuffixNone) :
            b \in Bars}
    \cup SeqChunks

(***************************************************************************)
(* The states before any call.                                             *)
(***************************************************************************)
MonitorIdle ==
    /\ p = <<>>
    /\ n = 0
    /\ err = "nil"
    /\ events = <<>>
    /\ calls = 0
    /\ written = <<>>

ProgressIdle == bar = <<>> /\ progress = <<>>

SpeedIdle == status = <<>> /\ speed = <<>>

ErrorIdle == stderr = <<>> /\ exit = "ok" /\ runErr = <<>> /\ retErr = <<>>

(***************************************************************************)
(* Spec: a run of Install with a callback: the process writes up to        *)
(* MaxWrites chunks to the monitor.                                        *)
(***************************************************************************)
Init == MonitorIdle /\ ProgressIdle /\ SpeedIdle /\ ErrorIdle

Next == \E c \in SeqChunks : Write(c)

Spec == Init /\ [][Next]_vars

(***************************************************************************)
(* SpecChunk: one Write call, over LineChunks.                             *)
(***************************************************************************)
WriteOnce(c) == calls = 0 /\ Write(c)

NextChunk == \E c \in LineChunks : WriteOnce(c)

SpecChunk == Init /\ [][NextChunk]_vars

(***************************************************************************)
(* SpecProgress: getProgress applied to every bar of Bars.                 *)
(***************************************************************************)
InitProgress ==
    /\ MonitorIdle /\ SpeedIdle /\ ErrorIdle
    /\ bar \in Bars
    /\ progress = <<>>

CallGetProgress ==
    /\ progress = <<>>
    /\ progress' = <<getProgress(bar)>>
    /\ UNCHANGED <<bar, monitorVars, speedVars, errorVars>>

NextProgress == CallGetProgress

SpecProgress == InitProgress /\ [][NextProgress]_vars

(***************************************************************************)
(* SpecSpeed: getSpeed applied to status texts: a speed token of every     *)
(* number string up to MaxNumLen characters and every unit, bare or after  *)
(* a percentage, and the status texts of LineChunks.                       *)
(***************************************************************************)
NumAlphabet == {"0", "1", "2", "4", "5", "."}

NumStrings == Strings(NumAlphabet, 1, MaxNumLen)

UnitBytes == <<"b", "y", "t", "e", "s">>
UnitKB == <<"k", "B">>
UnitMB == <<"M", "B">>
UnitGB == <<"G", "B">>
UnitTB == <<"T", "B">>
UnitKiB == <<"K", "i", "B">>

KnownUnits == {UnitBytes, UnitKB, UnitMB, UnitGB, UnitTB}

Units == KnownUnits \cup {UnitKiB}

SpeedToken(num, unit) == <<"(">> \o num \o <<" ">> \o unit \o SpeedTail

StatusTexts ==
    {pre \o SpeedToken(num, unit) :
        pre \in {StatusNone, StatusPercent \o SepSpace},
        num \in NumStrings, unit \in Units}
    \cup Statuses

InitSpeed ==
    /\ MonitorIdle /\ ProgressIdle /\ ErrorIdle
    /\ status \in StatusTexts
    /\ speed = <<>>

CallGetSpeed ==
    /\ speed = <<>>
    /\ speed' = <<getSpeed(status)>>
    /\ UNCHANGED <<status, monitorVars, progressVars, errorVars>>

NextSpeed == CallGetSpeed

SpecSpeed == InitSpeed /\ [][NextSpeed]_vars

(***************************************************************************)
(* SpecError: a process that ends in one of five ways after writing up to  *)
(* MaxLines lines of diagnostic output, run by cmd.Run with a stderr       *)
(* buffer (Install) or by cmd.Output (the other operations).               *)
(***************************************************************************)
\* ""
LineEmpty ==
    <<>>

\* " "
LineSpace ==
    <<" ">>

\* "Usage: flatpak install ..."
LineUsage ==
    <<"U", "s", "a", "g", "e", ":", " ", "f", "l", "a", "t", "p", "a", "k",
      " ", "i", "n", "s", "t", "a", "l", "l", " ", ".", ".", ".">>

\* "error: something went wrong"
LineError ==
    <<"e", "r", "r", "o", "r", ":", " ", "s", "o", "m", "e", "t", "h", "i",
      "n", "g", " ", "w", "e", "n", "t", " ", "w", "r", "o", "n", "g">>

\* "error:"
LineErrorOnly ==
    <<"e", "r", "r", "o", "r", ":">>

\* "error"
LineNoColon ==
    <<"e", "r", "r", "o", "r">>

\* "No such ref"
LineText ==
    <<"N", "o", " ", "s", "u", "c", "h", " ", "r", "e", "f">>

DiagLines ==
    {LineEmpty, LineSpace, LineUsage, LineError,
     LineErrorOnly, LineNoColon, LineText}

RECURSIVE JoinLines(_)
\* the lines ls with a newline between each two
JoinLines(ls) ==
    IF Len(ls) = 0 THEN <<>>
    ELSE IF Len(ls) = 1 THEN ls[1]
    ELSE ls[1] \o <<"\n">> \o JoinLines(Tail(ls))

Stderrs == {JoinLines(ls) : ls \in Strings(DiagLines, 1, MaxLines)}

\* how the process ends: exit status 0, a non-zero exit status, death by a
\* signal (ExitCode() is -1), no start at all, or a clean exit whose output
\* stream could not be read
Exits == {"ok", "nonzero", "signal", "nostart", "copyfail"}

\* the error cmd.Run or cmd.Output returns; captured is what ExitError.Stderr
\* holds
RunError(how, captured) ==
    CASE how = "ok" -> NoError
      [] how = "nonzero" -> [kind |-> "ExitError", Stderr |-> captured]
      [] how = "signal" -> [kind |-> "ExitError", Stderr |-> captured]
      [] how = "nostart" -> [kind |-> "PathError", Stderr |-> <<>>]
      [] how = "copyfail" -> [kind |-> "CopyError", Stderr |-> <<>>]

InitError ==
    /\ MonitorIdle /\ ProgressIdle /\ SpeedIdle
    /\ stderr \in Stderrs
    /\ exit \in Exits
    /\ exit = "nostart" => stderr = <<>>
    /\ runErr = <<>>
    /\ retErr = <<>>

\* err := cmd.Run(); return wrapErrorCmdRun(err, &stderrBuf)
CmdRun ==
    /\ retErr = <<>>
    /\ LET e == RunError(exit, <<>>)
       IN  /\ runErr' = <<e>>
           /\ retErr' = <<[via |-> "Run", ret |-> wrapErrorCmdRun(e, stderr)]>>
    /\ UNCHANGED <<stderr, exit, monitorVars, progressVars, speedVars>>

\* out, err := cmd.Output(); if err != nil { return wrapErrorCmdOutput(err) };
\* return nil
CmdOutput ==
    /\ retErr = <<>>
    /\ LET e == RunError(exit, stderr)
       IN  /\ runErr' = <<e>>
           /\ retErr' = <<[via |-> "Output",
                           ret |-> IF e # NoError
                                   THEN wrapErrorCmdOutput(e)
                                   ELSE NoError]>>
    /\ UNCHANGED <<stderr, exit, monitorVars, progressVars, speedVars>>

NextError == CmdRun \/ CmdOutput

SpecError == InitError /\ [][NextError]_vars

(***************************************************************************)
(* The claims.                                                             *)
(***************************************************************************)
\* the number of characters c in the string s
Count(s, c) == Cardinality({i \in 1..Len(s) : s[i] = c})

OnlyBarChars(s) == \A i \in 1..Len(s) : s[i] \in BarChars

\* C1: after any run of Write calls, the latest call returned the length of
\* its chunk and no error, whatever the chunk was.
C1_WriteReturnsLenAndNoError == calls > 0 => (n = Len(p) /\ err = "nil")

\* C1 witness: a second or later call, after a call that emitted an event,
\* was given a progress line with an undecodable bar and returned its length.
C1_Witness ==
    /\ calls >= 2
    /\ events # <<>>
    /\ p = ChunkBadBar
    /\ n = Len(ChunkBadBar)
    /\ err = "nil"

\* C2: a chunk that matches the installing pattern makes no callback
\* invocation, also when it holds a well-formed progress line.
C2_InstallingNoticeEmitsNothing ==
    (calls = 1 /\ regInstall(p).matched) => events = <<>>

\* C2 witness: Write has handled an installing notice followed by a progress
\* line with a decodable bar, and nothing was emitted.
C2_Witness ==
    /\ calls = 1
    /\ p = ProgressLine(PrefixInstalling, BarMixed, SepSpace, StatusSpeed,
                        SuffixNone)
    /\ regInstall(p).matched
    /\ regProgress(p).matched
    /\ ~getProgress(regProgress(p).bar).err
    /\ events = <<>>

\* C3: for a bar of '#', '=', '-' and ' ' only, getProgress returns, with no
\* error, the quotient of 3*count('#') + 2*count('=') + count('-') by
\* 3 * length; the bar "###===---   " gives 18/36, which is 0.5.
C3_ProgressIsWeightedFraction ==
    (progress # <<>> /\ OnlyBarChars(bar)) =>
        /\ ~progress[1].err
        /\ progress[1].num
              = 3 * Count(bar, "#") + 2 * Count(bar, "=") + Count(bar, "-")
        /\ progress[1].den = 3 * Len(bar)
        /\ bar = ExampleBar => 2 * progress[1].num = progress[1].den

\* C3 witness: getProgress has returned 18/36 for the example bar.
C3_Witness ==
    /\ bar = ExampleBar
    /\ progress # <<>>
    /\ ~progress[1].err
    /\ progress[1].num = 18
    /\ progress[1].den = 36

\* C4: every progress event delivered to the callback carries a fraction in
\* the closed interval [0,1], for every bar length the pattern admits.
C4_FractionInUnitInterval ==
    \A i \in 1..Len(events) : InUnitInterval(events[i].progress)

\* C5: a chunk that matches the progress pattern with a bar holding a
\* character outside '#', '=', '-', ' ' makes no callback invocation,
\* whatever the trailing text, and Write still reports no error.
C5_UndecodableBarEmitsNothing ==
    (calls = 1 /\ regProgress(p).matched /\ ~OnlyBarChars(regProgress(p).bar))
        => (events = <<>> /\ err = "nil" /\ n = Len(p))

\* C5 witness: Write has handled a line whose bar holds '?' and whose trailing
\* text holds a valid speed token, and nothing was emitted.
C5_Witness ==
    /\ calls = 1
    /\ p = ProgressLine(PrefixNone, BarUnknown, SepSpace, StatusSpeed,
                        SuffixNone)
    /\ regProgress(p).bar = BarUnknown
    /\ getSpeed(regProgress(p).status).err = "nil"
    /\ events = <<>>
    /\ err = "nil"

\* the chunk c is handled as a progress line with a decodable bar
DecodableProgressLine(c) ==
    /\ ~regInstall(c).matched
    /\ regProgress(c).matched
    /\ OnlyBarChars(regProgress(c).bar)

\* C6: for a progress line with a decodable bar, a speed token that is
\* absent, malformed ("1.2.3"), negative or of an unknown unit does not
\* suppress the event: the callback is invoked exactly once, with speed 0.
C6_SpeedFailureKeepsEvent ==
    (calls = 1 /\ DecodableProgressLine(p)) =>
        LET st == regProgress(p).status
        IN  /\ Len(events) = 1
            /\ (\/ getSpeed(st).err # "nil"
                \/ st \in {StatusNone, StatusPercent, StatusTwoPoints,
                           StatusNegative, StatusBadUnit})
                  => events[1].speed = <<0>>

\* C6 witness: Write has handled a line with a decodable bar and the token
\* "(-1 kB/s)", and emitted exactly one event, with speed 0.
C6_Witness ==
    /\ calls = 1
    /\ p = ProgressLine(PrefixNone, BarMixed, SepSpace, StatusNegative,
                        SuffixNone)
    /\ regProgress(p).status = StatusNegative
    /\ Len(events) = 1
    /\ events[1].speed = <<0>>

\* a number string ParseFloat accepts: one point at most, one digit at least
IsDecimalNumber(s) ==
    /\ s # <<>>
    /\ \A i \in 1..Len(s) : IsNumChar(s[i])
    /\ Count(s, ".") <= 1
    /\ \E i \in 1..Len(s) : s[i] \in Digit

\* the zeros of the multiplier of a unit: 1000^k is 10^(3k)
UnitZeros(unit) ==
    CASE unit = UnitBytes -> 0
      [] unit = UnitKB -> 3
      [] unit = UnitMB -> 6
      [] unit = UnitGB -> 9
      [] unit = UnitTB -> 12

\* the decimal digits of num * 10^z truncated to an integer: the digits before
\* the point, then the first z digits after it, filled up with zeros
ExactProduct(num, z) ==
    LET point == IF Count(num, ".") = 0 THEN Len(num) + 1
                 ELSE Min({i \in 1..Len(num) : num[i] = "."})
        int == Slice(num, 1, point - 1)
        frac == Slice(num, point + 1, Len(num))
        all == [i \in 1..(Len(int) + z) |->
                  IF i <= Len(int) THEN DigitVal(int[i])
                  ELSE IF i - Len(int) <= Len(frac)
                       THEN DigitVal(frac[i - Len(int)])
                       ELSE 0]
        first == {i \in 1..Len(all) : all[i] # 0}
    IN  IF first = {} THEN <<0>> ELSE Slice(all, Min(first), Len(all))

\* C7: for a speed token of a non-negative decimal number and one of the five
\* units, getSpeed returns the number times the unit's power of 1000,
\* truncated to an integer.
C7_SpeedIsExactProduct ==
    speed # <<>> =>
        \A unit \in KnownUnits :
            LET num == Slice(status, 2, Len(status) - Len(unit) - 4)
            IN  (IsDecimalNumber(num) /\ status = SpeedToken(num, unit)) =>
                    /\ speed[1].err = "nil"
                    /\ speed[1].val = ExactProduct(num, UnitZeros(unit))

\* st is what follows, up to the end of the line, the whitespace after a "]"
\* of c that closes a bar of bar characters
IsTrailingText(c, st) ==
    \E i \in 1..Len(c), j \in 1..Len(c) :
        /\ i < j
        /\ c[i] = "["
        /\ c[j] = "]"
        /\ OnlyBarChars(Slice(c, i + 1, j - 1))
        /\ \E k \in (j + 2)..(Len(c) + 1) :
              /\ \A m \in (j + 1)..(k - 1) : IsSpace(c[m])
              /\ k <= Len(c) => ~IsSpace(c[k])
              /\ \E e \in k..(Len(c) + 1) :
                    /\ e <= Len(c) => c[e] = "\n"
                    /\ \A m \in k..(e - 1) : c[m] # "\n"
                    /\ st = Slice(c, k, e - 1)

\* C8: the status passed to the callback is the trailing text of the line as
\* it stands in the chunk, speed token included, and the speed passed is the
\* one decoded from that text.
C8_StatusIsRawTrailingText ==
    (calls = 1 /\ events # <<>>) =>
        /\ IsTrailingText(p, events[1].status)
        /\ events[1].speed = getSpeed(events[1].status).val
        /\ \A st \in Statuses :
              p = ProgressLine(PrefixNone, BarMixed, SepSpace, st, SuffixNone)
                  => events[1].status = st

\* C8 witness: for "[#=- ] 33% (1.5 MB/s)" the callback got the status
\* "33% (1.5 MB/s)" and the speed 1500000.
C8_Witness ==
    /\ calls = 1
    /\ p = ProgressLine(PrefixNone, BarMixed, SepSpace, StatusSpeed,
                        SuffixNone)
    /\ Len(events) = 1
    /\ events[1].status = StatusSpeed
    /\ events[1].speed = <<1, 5, 0, 0, 0, 0, 0>>

\* "something went wrong"
SomethingWentWrong ==
    <<"s", "o", "m", "e", "t", "h", "i", "n", "g", " ", "w", "e", "n", "t",
      " ", "w", "r", "o", "n", "g">>

\* C9 as stated: a non-zero exit with the diagnostic output
\* "Usage: flatpak install ..." then "error: something went wrong" gives an
\* error with the usage flag set and the description "something went wrong".
C9_UsageErrorDescription ==
    (/\ retErr # <<>>
     /\ exit = "nonzero"
     /\ stderr = JoinLines(<<LineUsage, LineError>>)) =>
        /\ retErr[1].ret.kind = "FlatpakError"
        /\ retErr[1].ret.usageShown
        /\ retErr[1].ret.desc = SomethingWentWrong

\* C9 as amended: for that output the usage flag is set and the description is
\* " something went wrong": what follows the literal "error:", with the
\* separating space, so that Error() reads
\* "flatpak argument error: something went wrong".
C9_DescriptionKeepsSpace ==
    (/\ retErr # <<>>
     /\ exit = "nonzero"
     /\ stderr = JoinLines(<<LineUsage, LineError>>)) =>
        /\ retErr[1].ret.kind = "FlatpakError"
        /\ retErr[1].ret.usageShown
        /\ retErr[1].ret.desc = <<" ">> \o SomethingWentWrong
        /\ ErrorText(retErr[1].ret)
              = <<"f", "l", "a", "t", "p", "a", "k", " ", "a", "r", "g", "u",
                  "m", "e", "n", "t", " ", "e", "r", "r", "o", "r", ":", " ">>
                \o SomethingWentWrong

\* C9 witness: Install's process exited non-zero with that output and
\* wrapErrorCmdRun returned the FlatpakError.
C9_Witness ==
    /\ retErr # <<>>
    /\ retErr[1].via = "Run"
    /\ exit = "nonzero"
    /\ stderr = JoinLines(<<LineUsage, LineError>>)
    /\ retErr[1].ret.kind = "FlatpakError"
    /\ retErr[1].ret.usageShown
    /\ retErr[1].ret.desc = <<" ">> \o SomethingWentWrong

\* s[a..b] is the last non-empty line of s: a whole line, with nothing but
\* newlines after it
IsLastNonEmptyLine(s, a, b) ==
    /\ 1 <= a /\ a <= b /\ b <= Len(s)
    /\ a = 1 \/ s[a - 1] = "\n"
    /\ b = Len(s) \/ s[b + 1] = "\n"
    /\ \A i \in a..b : s[i] # "\n"
    /\ \A i \in (b + 1)..Len(s) : s[i] = "\n"

\* C10: after a non-zero exit, through wrapErrorCmdRun and through
\* wrapErrorCmdOutput alike, the description is the last non-empty line of
\* the diagnostic output without a leading "error:" (empty when there is no
\* such line), and the usage flag is set if and only if the output starts
\* with "Usage:".
C10_DescriptionIsLastLine ==
    (retErr # <<>> /\ exit = "nonzero") =>
        LET e == retErr[1].ret
            ends == {ab \in (1..Len(stderr)) \X (1..Len(stderr)) :
                        IsLastNonEmptyLine(stderr, ab[1], ab[2])}
        IN  /\ e.kind = "FlatpakError"
            /\ e.usageShown <=> LitAt(stderr, 1, UsageLit)
            /\ ends = {} => e.desc = <<>>
            /\ \A ab \in ends :
                  LET line == Slice(stderr, ab[1], ab[2])
                  IN  e.desc = IF LitAt(line, 1, ErrorLit)
                               THEN Slice(line, Len(ErrorLit) + 1, Len(line))
                               ELSE line

\* C10 witness: cmd.Output failed with a usage line, an error line and a final
\* newline; the description comes from the error line before the empty piece.
C10_Witness ==
    /\ retErr # <<>>
    /\ retErr[1].via = "Output"
    /\ exit = "nonzero"
    /\ stderr = JoinLines(<<LineUsage, LineError, LineEmpty>>)
    /\ retErr[1].ret.usageShown
    /\ retErr[1].ret.desc = <<" ">> \o SomethingWentWrong

\* the ways of ending for which cmd.Run and cmd.Output return an
\* *exec.ExitError: a non-zero exit status, ExitCode() -1 of a death by a
\* signal included
NonZeroExits == {"nonzero", "signal"}

\* C11: wrapErrorCmdRun and wrapErrorCmdOutput return their input unchanged
\* whenever it is not a non-zero-exit error: after a spawn or transport
\* failure the operation returns the very error cmd.Run or cmd.Output gave,
\* whatever the diagnostic buffer holds; after a successful run it returns no
\* error, whatever the diagnostic buffer holds; and a FlatpakError is returned
\* if and only if the process ended with a non-zero exit status.
C11_OtherErrorsPassThrough ==
    retErr # <<>> =>
        LET e == retErr[1].ret
        IN  /\ exit \notin NonZeroExits => e = runErr[1]
            /\ exit \in {"nostart", "copyfail"} =>
                  e.kind \in {"PathError", "CopyError"}
            /\ exit = "ok" => e = NoError
            /\ e.kind = "FlatpakError" <=> exit \in NonZeroExits
            /\ e.kind = "FlatpakError" => e.origin = runErr[1]

\* C11 witness: Install's process exited with status 0 after writing an error
\* line to its diagnostic output, but an output stream could not be read:
\* wrapErrorCmdRun returned that error and not a FlatpakError.
C11_Witness ==
    /\ retErr # <<>>
    /\ retErr[1].via = "Run"
    /\ exit = "copyfail"
    /\ stderr = JoinLines(<<LineUsage, LineError>>)
    /\ retErr[1].ret = runErr[1]
    /\ retErr[1].ret.kind = "CopyError"

\* what a monitor that has seen nothing before delivers for the chunk c
InIsolation(c) ==
    IF Classify(c) # "progress-line" THEN <<>>
    ELSE LET m == regProgress(c)
             pr == getProgress(m.bar)
         IN  IF pr.err THEN <<>>
             ELSE <<[progress |-> [num |-> pr.num, den |-> pr.den],
                     status |-> m.status,
                     speed |-> getSpeed(m.status).val]>>

RECURSIVE EventsInIsolation(_)
\* the events of the chunks cs, each taken in isolation, in order
EventsInIsolation(cs) ==
    IF cs = <<>> THEN <<>>
    ELSE InIsolation(Head(cs)) \o EventsInIsolation(Tail(cs))

\* the number of progress lines the chunk c holds: the positions of a "["
\* at the start of a line from which the progress pattern matches
ProgressLines(c) ==
    Cardinality({i \in 1..Len(c) :
                    /\ c[i] = "["
                    /\ i = 1 \/ c[i - 1] = "\n"
                    /\ BarEnds(c, i) # {}})

\* C12: every Write call puts its chunk into exactly one of the outcomes
\* installing-notice, progress-line and unrecognized (a chunk that holds a
\* notice is an installing-notice whatever else it holds), and invokes the
\* callback at most once, also for a chunk of several progress lines; the
\* events delivered over a sequence of calls are, in call order, those each
\* chunk gives in isolation; and the two halves of a split progress line give
\* no event for the joined line.
C12_EventsAreThoseOfEachChunkAlone ==
    /\ Len(written) = calls
    /\ events = EventsInIsolation(written)
    /\ Len(events) <= calls
    /\ \A i \in 1..Len(written) :
          LET c == written[i]
          IN  /\ Classify(c) \in
                    {"installing-notice", "progress-line", "unrecognized"}
              /\ Classify(c) = "installing-notice" <=>
                    \E k \in 1..Len(c) : regInstallAt(c, k)
              /\ Classify(c) = "unrecognized" <=>
                    /\ ~\E k \in 1..Len(c) : regInstallAt(c, k)
                    /\ ~regProgress(c).matched
              /\ Classify(c) # "progress-line" => InIsolation(c) = <<>>
              /\ Len(InIsolation(c)) <= 1
    /\ \A i \in 1..(Len(written) - 1) :
          LET joined == InIsolation(written[i] \o written[i + 1])
          IN  (/\ joined # <<>>
               /\ InIsolation(written[i]) = <<>>
               /\ InIsolation(written[i + 1]) = <<>>
               /\ \A k \in 1..Len(written) \ {i, i + 1} :
                     InIsolation(written[k]) # joined) =>
                  \A k \in 1..Len(events) : <<events[k]>> # joined

\* C12 witness: the two halves of the line "[##] 50%" came in two calls and
\* gave no event, then a chunk of two progress lines gave one event, that of
\* its first line.
C12_Witness ==
    /\ calls = 3
    /\ written = <<ChunkHalfA, ChunkHalfB, ChunkTwoLines>>
    /\ InIsolation(ChunkHalfA \o ChunkHalfB) # <<>>
    /\ ProgressLines(ChunkTwoLines) = 2
    /\ Len(events) = 1
    /\ events[1].progress = [num |-> 3, den |-> 3]
    /\ events[1].status = <<"a">>

====
